---- MODULE Spec2Model ----
(***************************************************************************)
(* Model of libredex/DexUtil.cpp: the global type/class hierarchy index    *)
(* (build_type_system, type_class, get_children, get_all_children,         *)
(* check_cast), the scope manager (build_class_scope, post_dexen_changes), *)
(* the linear-alloc estimator (matches_penalty, estimate_linear_alloc) and *)
(* the array descriptor helpers (get_array_level, get_array_type).         *)
(***************************************************************************)
EXTENDS Integers, Sequences, FiniteSets, TLC

VARIABLES
  type_to_class,    \* unordered_map<const DexType*, DexClass*>   (line 23)
  class_hierarchy,  \* unordered_map<const DexType*, TypeVector>  (line 24)
  regLog,           \* history: classes in the order their build_type_system call completed
  q,                \* history: the last query made on the index and its result
  mutex,            \* type_system_mutex: 0 when free, else the worker holding it
  pc,               \* per worker: position inside build_type_system
  wcls,             \* per worker: the cls argument of its current call
  wvec,             \* per worker: the subclass vector it loaded for push_back
  pool,             \* classes the host has loaded and not yet handed to a worker
  dexen,            \* DexClassesVector: the partitions, each a vector of DexClass*
  scope,            \* Scope: the working set of a pass
  debug,            \* the build's debug flag (Debug.h)
  pdc,              \* history: the last scope operation, its arguments, its outcome
  clazz,            \* the DexClass whose linear-alloc size is estimated
  est,              \* result of estimate_linear_alloc(clazz)
  mp,               \* result of matches_penalty on clazz's descriptor
  arrT,             \* a type descriptor
  arrLevel,         \* result of get_array_level(arrT)
  arrElem,          \* result of get_array_type(arrT)
  arrElemLevel,     \* result of get_array_level(arrElem)
  ran               \* history: the calls that have returned their result

idxVars == <<type_to_class, class_hierarchy, regLog, q>>
concVars == <<mutex, pc, wcls, wvec, pool>>
scopeVars == <<dexen, scope, debug, pdc>>
allocVars == <<clazz, est, mp>>
arrVars == <<arrT, arrLevel, arrElem, arrElemLevel>>
pureVars == <<allocVars, arrVars, ran>>
vars == <<idxVars, concVars, scopeVars, allocVars, arrVars, ran>>
offIndex == <<concVars, scopeVars, pureVars>>
offConc == <<scopeVars, pureVars>>
offScope == <<idxVars, concVars, pureVars>>
offAlloc == <<idxVars, concVars, scopeVars>>

----------------------------------------------------------------------------
(* Bounds *)
NumTypes == 3      \* type handles 1..NumTypes
MaxIntfs == 1      \* longest interface list of a class
MaxReg == 3        \* longest sequence of build_type_system calls
NumWorkers == 2    \* concurrent loader threads
NumCls == 3        \* DexClass objects known to the scope manager
MaxDex == 2        \* most partitions in a DexClassesVector
MaxPart == 2       \* most classes in one partition
MaxVMethods == 1   \* most virtual methods of a class
MaxDMethods == 2   \* most direct methods of a class
MaxIFields == 3    \* most instance fields of a class
MaxDepth == 2      \* most leading array markers of a descriptor

Null == 0                          \* nullptr as a DexType*
Types == 1..NumTypes               \* non-null DexType* handles
NoClass == [type |-> Null]         \* nullptr as a DexClass*
Fault == -1                        \* the value of a read through a null pointer
NoQuery == [op |-> "none"]
Workers == 1..NumWorkers
NoType == <<>>                     \* nullptr as a DexType* where handles are descriptors

Range(s) == {s[i] : i \in 1..Len(s)}

\* Injective sequences of length <= n over S (interface lists)
SeqsUpTo(S, n) == UNION {[1..k -> S] : k \in 0..n}
IntfLists(S) == {s \in SeqsUpTo(S, MaxIntfs) : \A i, j \in 1..Len(s) : i # j => s[i] # s[j]}

\* The DexClass objects the loader may hand over.  The loader guarantees an
\* acyclic class graph: handles are numbered in a topological order, so a
\* class's superclass and interfaces have smaller handles than its own.
Classes ==
  {c \in [type : Types, super : Null..NumTypes, intfs : IntfLists(Types)] :
     c.super < c.type /\ \A i \in 1..Len(c.intfs) : c.intfs[i] < c.type}

\* classes that implement no interface (build_type_system, get_children and
\* get_all_children never read the interface list)
PlainClasses == {c \in Classes : c.intfs = <<>>}

----------------------------------------------------------------------------
(* build_type_system, lines 123-129 *)

\* type_to_class.emplace(type, cls): no effect when the key is present
Emplace_overwrite(map, type, cls) ==
  [t \in DOMAIN map \cup {type} |-> IF t = type THEN cls ELSE map[t]]

Emplace(map, type, cls) ==
  IF type \in DOMAIN map THEN map
  ELSE [t \in DOMAIN map \cup {type} |-> IF t = type THEN cls ELSE map[t]]

\* class_hierarchy[super]: operator[] default-constructs a missing entry
VectorAt(hier, super) ==
  IF super \in DOMAIN hier THEN hier[super] ELSE <<>>

\* if (super) class_hierarchy[super].push_back(type), given the loaded vector
PushBackChild_front(hier, super, vec, type) ==
  IF super # Null
    THEN [s \in DOMAIN hier \cup {super} |-> IF s = super THEN <<type>> \o vec ELSE hier[s]]
    ELSE hier

PushBackChild(hier, super, vec, type) ==
  IF super # Null
    THEN [s \in DOMAIN hier \cup {super} |-> IF s = super THEN Append(vec, type) ELSE hier[s]]
    ELSE hier

(* type_class, lines 131-134 *)
type_class(t) ==
  IF t \in DOMAIN type_to_class THEN type_to_class[t] ELSE NoClass

(* get_children, lines 178-181 *)
get_children(type) ==
  IF type \in DOMAIN class_hierarchy THEN class_hierarchy[type] ELSE <<>>

(* check_cast, lines 156-166.  The outcome is "true", "false", or "fault" *)
(* when the call dereferences a null DexClass*.                            *)
RECURSIVE check_cast(_, _)
RECURSIVE check_cast_intfs(_, _, _)

\* cls->get_super_class(), cls->get_interfaces(): a null cls is dereferenced
get_super_class(cls) == IF cls = NoClass THEN Fault ELSE cls.super

\* for (auto intf : intfs->get_type_list()) if (check_cast(intf, base_type)) return true;
check_cast_intfs_skip(intfs, i, base_type) ==
  "false"

check_cast_intfs(intfs, i, base_type) ==
  IF i > Len(intfs) THEN "false"
  ELSE LET r == check_cast(intfs[i], base_type) IN
       IF r = "false" THEN check_cast_intfs(intfs, i + 1, base_type) ELSE r

check_cast(type, base_type) ==
  IF type = base_type THEN "true"
  ELSE LET cls == type_class(type) IN
       IF cls = NoClass THEN "false"
       ELSE LET super == get_super_class(cls) IN
            IF super = Fault THEN "fault"
            ELSE LET r == check_cast(super, base_type) IN
                 IF r = "false" THEN check_cast_intfs(cls.intfs, 1, base_type) ELSE r

(* get_all_children, lines 183-189 *)
RECURSIVE get_all_children(_, _)
RECURSIVE get_all_children_loop(_, _, _)

\* one iteration of the loop over direct: push_back(child), then recurse
get_all_children_postorder(direct, i, children) ==
  IF i > Len(direct) THEN children
  ELSE get_all_children_loop(direct, i + 1,
         Append(get_all_children(direct[i], children), direct[i]))

get_all_children_loop(direct, i, children) ==
  IF i > Len(direct) THEN children
  ELSE get_all_children_loop(direct, i + 1,
         get_all_children(direct[i], Append(children, direct[i])))

get_all_children(type, children) ==
  get_all_children_loop(get_children(type), 1, children)

----------------------------------------------------------------------------
(* The index used by one thread: registrations and queries *)

InitConcIdle ==
  /\ mutex = 0
  /\ pc = [w \in Workers |-> "idle"]
  /\ wcls = [w \in Workers |-> NoClass]
  /\ wvec = [w \in Workers |-> <<>>]
  /\ pool = {}

InitScopeIdle ==
  /\ dexen = <<>>
  /\ scope = <<>>
  /\ debug = FALSE
  /\ pdc = [op |-> "none"]

InitAllocIdle ==
  /\ clazz = NoClass
  /\ est = 0
  /\ mp = [matched |-> FALSE, penalty |-> 0]

InitArrIdle ==
  /\ arrT = NoType
  /\ arrLevel = 0
  /\ arrElem = NoType
  /\ arrElemLevel = 0

InitPureIdle == InitAllocIdle /\ InitArrIdle /\ ran = {}

InitIndex ==
  /\ type_to_class = <<>>
  /\ class_hierarchy = <<>>
  /\ regLog = <<>>
  /\ q = NoQuery

\* build_type_system(cls) run to completion by the only thread
Register(cls) ==
  /\ Len(regLog) < MaxReg
  /\ type_to_class' = Emplace(type_to_class, cls.type, cls)
  /\ class_hierarchy' =
       PushBackChild(class_hierarchy, cls.super, VectorAt(class_hierarchy, cls.super), cls.type)
  /\ regLog' = Append(regLog, cls)
  /\ q' = [op |-> "build_type_system", cls |-> cls,
           map |-> type_to_class, hier |-> class_hierarchy]

CheckCast(type, base_type) ==
  /\ q' = [op |-> "check_cast", type |-> type, base |-> base_type,
           res |-> check_cast(type, base_type)]
  /\ UNCHANGED <<type_to_class, class_hierarchy, regLog>>

GetAllChildren(type, children) ==
  /\ q' = [op |-> "get_all_children", type |-> type, init |-> children,
           res |-> get_all_children(type, children)]
  /\ UNCHANGED <<type_to_class, class_hierarchy, regLog>>

\* the loader hands over any class, in any order, possibly a handle twice
DoRegister ==
  /\ \E cls \in PlainClasses : Register(cls)
  /\ UNCHANGED offIndex

DoGetAllChildren ==
  /\ \E t \in Types, pre \in {<<>>, <<NumTypes>>} : GetAllChildren(t, pre)
  /\ UNCHANGED offIndex

NextIndex ==
  \/ DoRegister
  \/ DoGetAllChildren

\* nothing registered; the other components are not in use
InitIndexOnly == InitIndex /\ InitConcIdle /\ InitScopeIdle /\ InitPureIdle

SpecIndex == InitIndexOnly /\ [][NextIndex]_vars

\* the loader hands over one class per handle, superclasses and interfaces
\* before the classes that name them (check_cast reads type_to_class only,
\* whose content does not depend on the order of registration)
DoLoadClass ==
  /\ \E cls \in Classes :
       /\ \A t \in DOMAIN type_to_class : t < cls.type
       /\ Register(cls)
  /\ UNCHANGED offIndex

DoCheckCast ==
  /\ \E t, b \in Types : CheckCast(t, b)
  /\ UNCHANGED offIndex

NextCast ==
  \/ DoLoadClass
  \/ DoCheckCast

SpecCast == InitIndexOnly /\ [][NextCast]_vars

----------------------------------------------------------------------------
(* Properties of the single-threaded index *)

\* handles of the registered classes whose superclass is S, in registration order
RegisteredChildren(S) ==
  LET sel == SelectSeq(regLog, LAMBDA c : c.super = S)
  IN [i \in 1..Len(sel) |-> sel[i].type]

DistinctHandles ==
  \A i, j \in 1..Len(regLog) : i # j => regLog[i].type # regLog[j].type

RegisteredFor(h) ==
  IF \E i \in 1..Len(regLog) : regLog[i].type = h
    THEN regLog[CHOOSE i \in 1..Len(regLog) : regLog[i].type = h]
    ELSE NoClass

\* C1: after any sequence of build_type_system calls on classes with pairwise
\* distinct type handles, get_children(S) is the list of handles of the
\* registered classes whose superclass is S in registration order (empty when
\* there is none), and type_class(h) is the class registered for h, or null.
C1_HierarchyConsistency ==
  DistinctHandles =>
    /\ Null \notin DOMAIN class_hierarchy
    /\ \A S \in Types : get_children(S) = RegisteredChildren(S)
    /\ \A h \in Types : type_class(h) = RegisteredFor(h)

\* two subclasses of one superclass registered in an order that is not sorted
C1_Witness ==
  /\ DistinctHandles
  /\ \E S \in Types :
       /\ Len(get_children(S)) = 2
       /\ get_children(S)[1] > get_children(S)[2]
       /\ type_class(get_children(S)[1]) # NoClass

\* number of occurrences of x in sequence s
Count(s, x) == Cardinality({i \in 1..Len(s) : s[i] = x})

\* the block <<h>> \o sub starts at position i of out
BlockAt(out, i, h, sub) ==
  /\ i + Len(sub) <= Len(out)
  /\ out[i] = h
  /\ SubSeq(out, i + 1, i + Len(sub)) = sub

Edges(t) ==
  LET cls == type_class(t)
  IN IF cls = NoClass THEN {} ELSE ({cls.super} \cup Range(cls.intfs)) \ {Null}

RECURSIVE ReachFrom(_)
ReachFrom(S) ==
  LET n == S \cup UNION {Edges(t) : t \in S}
  IN IF n = S THEN S ELSE ReachFrom(n)

\* C3: check_cast(type, base_type) is true exactly when base_type is type
\* itself or is reachable from type along superclass and interface edges of
\* registered classes, and is false, without a fault, in every other case.
C3_SubtypeQuery ==
  q.op = "check_cast" =>
    q.res = IF q.base \in ReachFrom({q.type}) THEN "true" ELSE "false"

\* a true answer that needs more than one edge
C3_Witness ==
  /\ q.op = "check_cast"
  /\ q.res = "true"
  /\ q.type # q.base
  /\ q.base \notin Edges(q.type)

\* direct subclasses recorded for the handles of S
ChildrenOf(S) == UNION {Range(get_children(t)) : t \in S}

RECURSIVE DescFrom(_)
DescFrom(S) ==
  LET n == S \cup ChildrenOf(S)
  IN IF n = S THEN S ELSE DescFrom(n)

\* transitive subclasses of h
Descendants(h) == DescFrom(ChildrenOf({h}))

FirstPos(s, x) == CHOOSE i \in 1..Len(s) : s[i] = x /\ \A j \in 1..(i - 1) : s[j] # x

\* C4: get_all_children(h, children) appends to children exactly the
\* transitive subclasses of h in depth-first pre-order: every emitted handle
\* follows its superclass (or is a direct child of h), each direct child is
\* followed at once by its own descendants, and siblings appear in
\* registration order; with distinct registered handles each once.
C4_DescendantClosure ==
  q.op = "get_all_children" =>
    LET n0 == Len(q.init)
        out == SubSeq(q.res, n0 + 1, Len(q.res))
    IN /\ Len(q.res) >= n0
       /\ SubSeq(q.res, 1, n0) = q.init
       /\ Range(out) = Descendants(q.type)
       /\ \A i \in 1..Len(out) :
            \/ out[i] \in Range(get_children(q.type))
            \/ \E j \in 1..(i - 1) : out[i] \in Range(get_children(out[j]))
       /\ \A i \in 1..Len(out) :
            LET k == Cardinality(Descendants(out[i]))
            IN DistinctHandles =>
                 /\ i + k <= Len(out)
                 /\ Range(SubSeq(out, i + 1, i + k)) = Descendants(out[i])
       /\ DistinctHandles =>
            /\ Len(out) = Cardinality(Descendants(q.type))
            /\ \A p \in {q.type} \cup Range(out) :
                 \A a, b \in 1..Len(get_children(p)) :
                   a < b => FirstPos(out, get_children(p)[a]) < FirstPos(out, get_children(p)[b])

\* the chain A, B, C: the result for A is B then C
C4_Witness ==
  /\ q.op = "get_all_children"
  /\ DistinctHandles
  /\ q.init = <<>>
  /\ Len(q.res) = 2
  /\ get_children(q.type) = <<q.res[1]>>
  /\ get_children(q.res[1]) = <<q.res[2]>>
----------------------------------------------------------------------------
(* build_type_system called by concurrent loader threads *)

\* classes handed to the workers: one class per handle
Pools == {P \in SUBSET PlainClasses : \A c, d \in P : c # d => c.type # d.type}

InitConc ==
  /\ type_to_class = <<>>
  /\ class_hierarchy = <<>>
  /\ regLog = <<>>
  /\ q = NoQuery
  /\ mutex = 0
  /\ pc = [w \in Workers |-> "idle"]
  /\ wcls = [w \in Workers |-> NoClass]
  /\ wvec = [w \in Workers |-> <<>>]
  /\ pool \in Pools
  /\ InitScopeIdle /\ InitPureIdle

\* std::lock_guard<std::mutex> l(type_system_mutex) can be constructed
lock_guard_missing(m) ==
  TRUE

lock_guard_acquirable(m) ==
  m = 0

\* a worker takes the next loaded class and calls build_type_system(cls)
Call(w) ==
  /\ pc[w] = "idle"
  /\ \E cls \in pool :
       /\ pool' = pool \ {cls}
       /\ wcls' = [wcls EXCEPT ![w] = cls]
  /\ pc' = [pc EXCEPT ![w] = "lock"]
  /\ UNCHANGED <<idxVars, mutex, wvec>>

\* line 124
Lock(w) ==
  /\ pc[w] = "lock"
  /\ lock_guard_acquirable(mutex)
  /\ mutex' = w
  /\ pc' = [pc EXCEPT ![w] = "emplace"]
  /\ UNCHANGED <<idxVars, wcls, wvec, pool>>

\* lines 125-127
EmplaceStep(w) ==
  /\ pc[w] = "emplace"
  /\ type_to_class' = Emplace(type_to_class, wcls[w].type, wcls[w])
  /\ pc' = [pc EXCEPT ![w] = IF wcls[w].super # Null THEN "load" ELSE "unlock"]
  /\ UNCHANGED <<class_hierarchy, regLog, q, mutex, wcls, wvec, pool>>

\* line 128, class_hierarchy[super]: find or create the vector and read it
LoadVector(w) ==
  /\ pc[w] = "load"
  /\ wvec' = [wvec EXCEPT ![w] = VectorAt(class_hierarchy, wcls[w].super)]
  /\ class_hierarchy' =
       [s \in DOMAIN class_hierarchy \cup {wcls[w].super} |-> VectorAt(class_hierarchy, s)]
  /\ pc' = [pc EXCEPT ![w] = "push"]
  /\ UNCHANGED <<type_to_class, regLog, q, mutex, wcls, pool>>

\* line 128, push_back(type): store the extended vector
PushBack(w) ==
  /\ pc[w] = "push"
  /\ class_hierarchy' =
       PushBackChild(class_hierarchy, wcls[w].super, wvec[w], wcls[w].type)
  /\ pc' = [pc EXCEPT ![w] = "unlock"]
  /\ UNCHANGED <<type_to_class, regLog, q, mutex, wcls, wvec, pool>>

\* line 129: the lock_guard's destructor releases the mutex; the call returns
Unlock(w) ==
  /\ pc[w] = "unlock"
  /\ mutex' = 0
  /\ pc' = [pc EXCEPT ![w] = "idle"]
  /\ regLog' = Append(regLog, wcls[w])
  /\ wcls' = [wcls EXCEPT ![w] = NoClass]
  /\ wvec' = [wvec EXCEPT ![w] = <<>>]
  /\ UNCHANGED <<type_to_class, class_hierarchy, q, pool>>

DoCall == (\E w \in Workers : Call(w)) /\ UNCHANGED offConc
DoLock == (\E w \in Workers : Lock(w)) /\ UNCHANGED offConc
DoEmplaceStep == (\E w \in Workers : EmplaceStep(w)) /\ UNCHANGED offConc
DoLoadVector == (\E w \in Workers : LoadVector(w)) /\ UNCHANGED offConc
DoPushBack == (\E w \in Workers : PushBack(w)) /\ UNCHANGED offConc
DoUnlock == (\E w \in Workers : Unlock(w)) /\ UNCHANGED offConc

NextConc ==
  \/ DoCall
  \/ DoLock
  \/ DoEmplaceStep
  \/ DoLoadVector
  \/ DoPushBack
  \/ DoUnlock

SpecConc == InitConc /\ [][NextConc]_vars

\* the index after running build_type_system on seq[1], seq[2], ... in turn
RECURSIVE SerialIndex(_)
SerialIndex(seq) ==
  IF seq = <<>> THEN [map |-> <<>>, hier |-> <<>>]
  ELSE LET prev == SerialIndex(SubSeq(seq, 1, Len(seq) - 1))
           cls == seq[Len(seq)]
       IN [map |-> Emplace(prev.map, cls.type, cls),
           hier |-> PushBackChild(prev.hier, cls.super, VectorAt(prev.hier, cls.super), cls.type)]

Orders(seq) ==
  {[i \in 1..Len(seq) |-> seq[f[i]]] :
     f \in {g \in [1..Len(seq) -> 1..Len(seq)] : \A i, j \in 1..Len(seq) : i # j => g[i] # g[j]}}

InCritical(w) == pc[w] \in {"emplace", "load", "push", "unlock"}

\* C2: concurrent build_type_system calls on classes with distinct handles
\* exclude one another for the whole two-map update; whenever no call is
\* inside it the index equals the one produced by running the completed
\* registrations one after another in some order, no registration is lost,
\* and the two maps agree.
C2_AtomicRegistration ==
  /\ \A v, w \in Workers : (v # w /\ InCritical(v)) => ~InCritical(w)
  /\ (\A w \in Workers : ~InCritical(w)) =>
       /\ \E o \in Orders(regLog) :
            /\ type_to_class = SerialIndex(o).map
            /\ class_hierarchy = SerialIndex(o).hier
       /\ \A i \in 1..Len(regLog) :
            /\ type_class(regLog[i].type) = regLog[i]
            /\ regLog[i].super # Null =>
                 Count(get_children(regLog[i].super), regLog[i].type) = 1
       /\ \A s \in DOMAIN class_hierarchy :
            \A i \in 1..Len(class_hierarchy[s]) :
              /\ class_hierarchy[s][i] \in DOMAIN type_to_class
              /\ type_to_class[class_hierarchy[s][i]].super = s

\* all calls have returned; two subclasses of one superclass were registered,
\* the one with the larger handle first
C2_Witness ==
  /\ \A w \in Workers : pc[w] = "idle"
  /\ pool = {}
  /\ \E s \in Types : Len(get_children(s)) = 2
  /\ Len(regLog) >= 2
  /\ regLog[1].type > regLog[2].type
----------------------------------------------------------------------------
(* Scope manager: build_class_scope and post_dexen_changes *)

ClassPtrs == 1..NumCls             \* DexClass* values, compared by identity


(* build_class_scope, lines 309-317 *)
RECURSIVE push_back_all(_, _, _)
push_back_all(classes, i, v) ==
  IF i > Len(classes) THEN v
  ELSE push_back_all(classes, i + 1, Append(v, classes[i]))

RECURSIVE build_class_scope_loop(_, _, _)
build_class_scope_loop(dx, k, v) ==
  IF k > Len(dx) THEN v
  ELSE build_class_scope_loop(dx, k + 1, push_back_all(dx[k], 1, v))

build_class_scope(dx) ==
  build_class_scope_loop(dx, 1, <<>>)

(* post_dexen_changes, lines 319-342 *)

\* the predicate given to remove_if, lines 326-328
remove_pred_inverted(clookup, cls) ==
  cls \in clookup

remove_pred(clookup, cls) ==
  cls \notin clookup

\* classes.erase(std::remove_if(begin, end, pred), end), lines 322-329
RECURSIVE erase_remove_if(_, _, _)
erase_remove_if(classes, i, clookup) ==
  IF i > Len(classes) THEN <<>>
  ELSE (IF remove_pred(clookup, classes[i]) THEN <<>> ELSE <<classes[i]>>)
         \o erase_remove_if(classes, i + 1, clookup)

\* lines 320-330: the partitions after the filter
filter_dexen(v, dx) ==
  [k \in 1..Len(dx) |-> erase_remove_if(dx[k], 1, Range(v))]

\* lines 332-340: some assert_log(dlookup.count(cls)) fails
assert_fails_reversed(v, dx) ==
  LET clookup == Range(v)
      dlookup == UNION {Range(dx[k]) : k \in 1..Len(dx)}
  IN \E cls \in dlookup : cls \notin clookup

assert_fails(v, dx) ==
  LET clookup == Range(v)
      dlookup == UNION {Range(dx[k]) : k \in 1..Len(dx)}
  IN \E cls \in clookup : cls \notin dlookup

\* the loaded program: every class is stored once, in one partition
DexenVectors ==
  {dx \in SeqsUpTo(SeqsUpTo(ClassPtrs, MaxPart), MaxDex) :
     /\ \A k \in 1..Len(dx) : \A i, j \in 1..Len(dx[k]) : i # j => dx[k][i] # dx[k][j]
     /\ \A k, l \in 1..Len(dx) : k # l => Range(dx[k]) \cap Range(dx[l]) = {}}

InitScope ==
  /\ dexen \in DexenVectors
  /\ scope = <<>>
  /\ debug \in BOOLEAN
  /\ pdc = [op |-> "none"]
  /\ InitIndex /\ InitConcIdle /\ InitPureIdle

Running == ~(pdc.op = "post_dexen_changes" /\ pdc.status = "fault")

\* a pass obtains its working set
BuildClassScope ==
  /\ Running
  /\ scope' = build_class_scope(dexen)
  /\ pdc' = [op |-> "build_class_scope"]
  /\ UNCHANGED <<dexen, debug>>

\* the pass deletes the i-th class of its working set
ScopeErase(i) ==
  /\ Running
  /\ scope' = SubSeq(scope, 1, i - 1) \o SubSeq(scope, i + 1, Len(scope))
  /\ pdc' = [op |-> "pass"]
  /\ UNCHANGED <<dexen, debug>>

\* the pass puts a class into its working set: one it had deleted, or one
\* that no partition holds
ScopeAdd(cls) ==
  /\ Running
  /\ cls \notin Range(scope)
  /\ scope' = Append(scope, cls)
  /\ pdc' = [op |-> "pass"]
  /\ UNCHANGED <<dexen, debug>>

\* post_dexen_changes(scope, dexen)
PostDexenChanges ==
  /\ Running
  /\ dexen' = filter_dexen(scope, dexen)
  /\ pdc' = [op |-> "post_dexen_changes", v |-> scope, dexen0 |-> dexen,
             status |-> IF debug /\ assert_fails(scope, dexen') THEN "fault" ELSE "done"]
  /\ UNCHANGED <<scope, debug>>

DoBuildClassScope == BuildClassScope /\ UNCHANGED offScope
DoScopeErase == (\E i \in 1..Len(scope) : ScopeErase(i)) /\ UNCHANGED offScope
DoScopeAdd == (\E cls \in ClassPtrs : ScopeAdd(cls)) /\ UNCHANGED offScope
DoPostDexenChanges == PostDexenChanges /\ UNCHANGED offScope

NextScope ==
  \/ DoBuildClassScope
  \/ DoScopeErase
  \/ DoScopeAdd
  \/ DoPostDexenChanges

SpecScope == InitScope /\ [][NextScope]_vars

\* the in-order concatenation of the partitions
RECURSIVE Concat(_)
Concat(dx) == IF dx = <<>> THEN <<>> ELSE Head(dx) \o Concat(Tail(dx))

\* s restricted to the members of S, in the same relative order
Restrict(s, S) == SelectSeq(s, LAMBDA c : c \in S)

ClassesIn(dx) == UNION {Range(dx[k]) : k \in 1..Len(dx)}

\* C5: post_dexen_changes(S, P) keeps the number and order of the partitions
\* and makes each partition its previous content restricted to the members
\* of S, in the same relative order, adding no class; a class not in S is in
\* no partition afterwards; with S = build_class_scope(P) (the in-order
\* concatenation of the partitions) P is unchanged.
C5_ScopeCommit ==
  /\ pdc.op = "build_class_scope" => scope = Concat(dexen)
  /\ pdc.op = "post_dexen_changes" =>
       /\ Len(dexen) = Len(pdc.dexen0)
       /\ \A k \in 1..Len(dexen) : dexen[k] = Restrict(pdc.dexen0[k], Range(pdc.v))
       /\ ClassesIn(dexen) \subseteq ClassesIn(pdc.dexen0)
       /\ \A x \in ClassPtrs : x \notin Range(pdc.v) => x \notin ClassesIn(dexen)
       /\ pdc.v = Concat(pdc.dexen0) => dexen = pdc.dexen0

\* a class was removed from the built scope; a partition keeps two others
C5_Witness ==
  /\ pdc.op = "post_dexen_changes"
  /\ Len(dexen) = 2
  /\ \E x \in ClassesIn(pdc.dexen0) : x \notin Range(pdc.v)
  /\ \E k \in 1..Len(dexen) : Len(dexen[k]) = 2 /\ dexen[k][1] > dexen[k][2]
  /\ dexen # pdc.dexen0

\* C6: in a debug build post_dexen_changes(S, P) raises its assertion fault
\* exactly when S holds a class that is in no partition of P; in a non-debug
\* build the call completes and the extra class is in no partition.
C6_CommitAssertion ==
  pdc.op = "post_dexen_changes" =>
    LET extra == Range(pdc.v) \ ClassesIn(pdc.dexen0)
    IN /\ debug => (pdc.status = "fault" <=> extra # {})
       /\ ~debug => (pdc.status = "done" /\ extra \cap ClassesIn(dexen) = {})

\* the debug build faults on a scope with a class of no partition
C6_Witness ==
  /\ pdc.op = "post_dexen_changes"
  /\ debug
  /\ pdc.status = "fault"
  /\ ClassesIn(pdc.dexen0) # {}
----------------------------------------------------------------------------
(* Linear-alloc estimator: matches_penalty and estimate_linear_alloc *)

\* descriptors are C strings: sequences of characters (the terminating NUL
\* is the position after the last one)
sLayout == <<"L", "a", "y", "o", "u", "t">>
sView == <<"V", "i", "e", "w">>
sViewGroup == <<"V", "i", "e", "w", "G", "r", "o", "u", "p">>
sActivity == <<"A", "c", "t", "i", "v", "i", "t", "y">>
sFoo == <<"F", "o", "o">>

\* class descriptors L<prefix><stem>;
ClassDescriptors ==
  {<<"L">> \o a \o b \o <<";">> :
     a \in {<<>>, sView, sFoo},
     b \in {sLayout, sView, sViewGroup, sActivity, sFoo}}

(* compile_regexes, lines 256-263 *)
compile_regexes_unanchored ==
  << [regex |-> sLayout \o <<";", "$">>, penalty |-> 1500],
     [regex |-> sView, penalty |-> 1500],
     [regex |-> sViewGroup \o <<";", "$">>, penalty |-> 1800],
     [regex |-> sActivity \o <<";", "$">>, penalty |-> 1500] >>

compile_regexes ==
  << [regex |-> sLayout \o <<";", "$">>, penalty |-> 1500],
     [regex |-> sView \o <<";", "$">>, penalty |-> 1500],
     [regex |-> sViewGroup \o <<";", "$">>, penalty |-> 1800],
     [regex |-> sActivity \o <<";", "$">>, penalty |-> 1500] >>

(* lines 265-268 *)
kObjectVtable == 48
kMethodSize == 52
kInstanceFieldSize == 16
kVtableSlotSize == 4

\* the literal lit occurs in string at position k
LiteralAt(lit, string, k) ==
  /\ k + Len(lit) - 1 <= Len(string)
  /\ \A i \in 1..Len(lit) : string[k + i - 1] = lit[i]

\* regexec(&regex, string, 0, nullptr, 0) == 0 for a POSIX basic regular
\* expression (regcomp with cflags 0, line 251) made of ordinary characters
\* and an optional final "$": a search for the literal anywhere in the string,
\* or, with the anchor, at its end
regexec(regex, string) ==
  IF Len(regex) > 0 /\ regex[Len(regex)] = "$"
    THEN LET lit == SubSeq(regex, 1, Len(regex) - 1)
         IN /\ Len(lit) <= Len(string)
            /\ LiteralAt(lit, string, Len(string) - Len(lit) + 1)
    ELSE \E k \in 1..(Len(string) + 1) : LiteralAt(regex, string, k)

(* matches_penalty, lines 270-279: the return value and the penalty argument *)
RECURSIVE matches_penalty_loop(_, _, _, _)
matches_penalty_loop(patterns, i, string, penalty) ==
  IF i > Len(patterns) THEN [matched |-> FALSE, penalty |-> penalty]
  ELSE IF regexec(patterns[i].regex, string)
         THEN [matched |-> TRUE, penalty |-> patterns[i].penalty]
         ELSE matches_penalty_loop(patterns, i + 1, string, penalty)

matches_penalty(string, penalty) ==
  matches_penalty_loop(compile_regexes, 1, string, penalty)

(* estimate_linear_alloc, lines 281-306 *)
\* lines 289-295: the vtable penalty of a class that is not an interface
vtable_penalty_super_first(cls) ==
  LET super == IF cls.super_name # NoType
                 THEN matches_penalty(cls.super_name, kObjectVtable)
                 ELSE [matched |-> FALSE, penalty |-> kObjectVtable]
  IN IF super.matched THEN super.penalty
     ELSE matches_penalty(cls.name, kObjectVtable).penalty

vtable_penalty(cls) ==
  LET own == matches_penalty(cls.name, kObjectVtable)
  IN IF ~own.matched /\ cls.super_name # NoType
       THEN matches_penalty(cls.super_name, own.penalty).penalty
       ELSE own.penalty

estimate_linear_alloc(cls) ==
  LET lasize1 == IF ~cls.interface
                   THEN vtable_penalty(cls) + cls.vmethods * kVtableSlotSize
                   ELSE 0
  IN lasize1 + cls.dmethods * kMethodSize
             + cls.vmethods * kMethodSize
             + cls.ifields * kInstanceFieldSize

\* what estimate_linear_alloc reads of a DexClass: the descriptor of its type,
\* the descriptor of its superclass (NoType for none), the interface access
\* flag and the sizes of its method and field lists
AllocClasses ==
  [name : ClassDescriptors,
   super_name : ClassDescriptors \cup {NoType},
   interface : BOOLEAN,
   vmethods : 0..MaxVMethods,
   dmethods : 0..MaxDMethods,
   ifields : 0..MaxIFields]

InitAlloc ==
  /\ clazz \in AllocClasses
  /\ est = 0
  /\ mp = [matched |-> FALSE, penalty |-> 0]
  /\ ran = {}
  /\ InitIndex /\ InitConcIdle /\ InitScopeIdle /\ InitArrIdle

EstimateLinearAlloc ==
  /\ est' = estimate_linear_alloc(clazz)
  /\ ran' = ran \cup {"estimate_linear_alloc"}
  /\ UNCHANGED <<clazz, mp>>

\* the first call of line 290
MatchesPenalty ==
  /\ mp' = matches_penalty(clazz.name, kObjectVtable)
  /\ ran' = ran \cup {"matches_penalty"}
  /\ UNCHANGED <<clazz, est>>

DoEstimateLinearAlloc == EstimateLinearAlloc /\ UNCHANGED <<offAlloc, arrVars>>
DoMatchesPenalty == MatchesPenalty /\ UNCHANGED <<offAlloc, arrVars>>

NextAlloc ==
  \/ DoEstimateLinearAlloc
  \/ DoMatchesPenalty

SpecAlloc == InitAlloc /\ [][NextAlloc]_vars

EndsWith(s, suffix) ==
  /\ Len(suffix) <= Len(s)
  /\ SubSeq(s, Len(s) - Len(suffix) + 1, Len(s)) = suffix

\* the cost of the pattern a descriptor matches, 0 when it matches none
PatternCost(d) ==
  IF EndsWith(d, sViewGroup \o <<";">>) THEN 1800
  ELSE IF \/ EndsWith(d, sLayout \o <<";">>)
          \/ EndsWith(d, sView \o <<";">>)
          \/ EndsWith(d, sActivity \o <<";">>) THEN 1500
  ELSE 0

\* C7: estimate_linear_alloc returns 52*(d+v) + 16*f for an interface and
\* base + 4*v + 52*(d+v) + 16*f otherwise, where base is the cost of the
\* pattern the class's own descriptor matches, else that of the pattern its
\* superclass's descriptor matches (when it has a superclass), else 48.
C7_LinearAlloc ==
  "estimate_linear_alloc" \in ran =>
    LET v == clazz.vmethods
        d == clazz.dmethods
        f == clazz.ifields
        base == IF PatternCost(clazz.name) # 0 THEN PatternCost(clazz.name)
                ELSE IF clazz.super_name # NoType /\ PatternCost(clazz.super_name) # 0
                       THEN PatternCost(clazz.super_name)
                ELSE 48
    IN /\ clazz.interface => est = 52 * (d + v) + 16 * f
       /\ ~clazz.interface => est = base + 4 * v + 52 * (d + v) + 16 * f
       /\ (~clazz.interface /\ v = 0 /\ d = 2 /\ f = 3 /\ base = 48) => est = 200

\* the own-class match has priority over a different superclass match
C7_Witness ==
  /\ "estimate_linear_alloc" \in ran
  /\ ~clazz.interface
  /\ PatternCost(clazz.name) = 1800
  /\ clazz.super_name # NoType
  /\ PatternCost(clazz.super_name) = 1500
  /\ est = 1800 + 4 * clazz.vmethods + 52 * (clazz.dmethods + clazz.vmethods) + 16 * clazz.ifields

\* C8: for a descriptor that ends in "ViewGroup;" matches_penalty yields the
\* view-group cost 1800, never the view cost 1500, so a class that is not an
\* interface, with such a descriptor, 0 virtual methods, 2 direct methods
\* and 3 instance fields, is estimated at 1952.
C8_ViewGroupPenalty ==
  EndsWith(clazz.name, sViewGroup \o <<";">>) =>
    /\ "matches_penalty" \in ran => (mp.matched /\ mp.penalty = 1800)
    /\ (/\ "estimate_linear_alloc" \in ran
        /\ ~clazz.interface
        /\ clazz.vmethods = 0
        /\ clazz.dmethods = 2
        /\ clazz.ifields = 3) => est = 1952

\* the view-group class of the example, after both calls
C8_Witness ==
  /\ ran = {"estimate_linear_alloc", "matches_penalty"}
  /\ EndsWith(clazz.name, sViewGroup \o <<";">>)
  /\ mp.matched
  /\ mp.penalty = 1800
  /\ ~clazz.interface
  /\ est = 1952
----------------------------------------------------------------------------
(* Array descriptors: is_array, get_array_level, get_array_type *)

\* the character at position i of a C string; the NUL after the last one
CharAt(name, i) == IF i <= Len(name) THEN name[i] ELSE "NUL"

\* element descriptors: the primitive codes and two class descriptors
ElementDescriptors ==
  {<<c>> : c \in {"Z", "B", "S", "C", "I", "J", "F", "D"}}
    \cup {<<"L">> \o sFoo \o <<";">>, <<"L">> \o sView \o <<";">>}

RECURSIVE Markers(_)
Markers(n) == IF n = 0 THEN <<>> ELSE <<"[">> \o Markers(n - 1)

\* well-formed descriptors: array markers, then an element descriptor
Descriptors == {Markers(n) \o e : n \in 0..MaxDepth, e \in ElementDescriptors}

\* DexType::make_type(name): the one handle of the descriptor; a handle is
\* modelled by the descriptor it interns
make_type(name) == name

(* is_array, lines 210-212 *)
is_array(type) == CharAt(type, 1) = "["

(* get_array_level, lines 214-220 *)
\* while (*name++ == '[' && ++level) ;
\* ++level is never 0: the uint32_t level is at most the descriptor's length,
\* and a descriptor is shorter than 2^32 characters
RECURSIVE get_array_level_loop(_, _, _)
get_array_level_loop(name, i, level) ==
  IF CharAt(name, i) = "[" /\ level + 1 # 0
    THEN get_array_level_loop(name, i + 1, level + 1)
    ELSE level

get_array_level(type) ==
  get_array_level_loop(type, 1, 0)

(* get_array_type, lines 222-229 *)
\* while (*name == '[') name++;
RECURSIVE skip_markers(_, _)
skip_markers(name, i) ==
  IF CharAt(name, i) = "[" THEN skip_markers(name, i + 1) ELSE i

\* a version that strips one marker only
get_array_type_one_level(type) ==
  IF ~is_array(type) THEN NoType
  ELSE make_type(SubSeq(type, 2, Len(type)))

get_array_type(type) ==
  IF ~is_array(type) THEN NoType
  ELSE make_type(SubSeq(type, skip_markers(type, 1), Len(type)))

InitArr ==
  /\ arrT \in Descriptors
  /\ arrLevel = 0
  /\ arrElem = NoType
  /\ arrElemLevel = 0
  /\ ran = {}
  /\ InitIndex /\ InitConcIdle /\ InitScopeIdle /\ InitAllocIdle

GetArrayLevel ==
  /\ arrLevel' = get_array_level(arrT)
  /\ ran' = ran \cup {"get_array_level"}
  /\ UNCHANGED <<arrT, arrElem, arrElemLevel>>

GetArrayType ==
  /\ arrElem' = get_array_type(arrT)
  /\ ran' = ran \cup {"get_array_type"}
  /\ UNCHANGED <<arrT, arrLevel, arrElemLevel>>

\* get_array_level of the type get_array_type returned, when it is not null
GetElementLevel ==
  /\ "get_array_type" \in ran
  /\ arrElem # NoType
  /\ arrElemLevel' = get_array_level(arrElem)
  /\ ran' = ran \cup {"element_level"}
  /\ UNCHANGED <<arrT, arrLevel, arrElem>>

DoGetArrayLevel == GetArrayLevel /\ UNCHANGED <<offAlloc, allocVars>>
DoGetArrayType == GetArrayType /\ UNCHANGED <<offAlloc, allocVars>>
DoGetElementLevel == GetElementLevel /\ UNCHANGED <<offAlloc, allocVars>>

NextArr ==
  \/ DoGetArrayLevel
  \/ DoGetArrayType
  \/ DoGetElementLevel

SpecArr == InitArr /\ [][NextArr]_vars

\* the count of leading array markers of a descriptor
LeadingMarkers(d) ==
  CHOOSE n \in 0..Len(d) :
    /\ \A i \in 1..n : d[i] = "["
    /\ (n < Len(d) => d[n + 1] # "[")

AllRun == ran = {"get_array_level", "get_array_type", "element_level"}

\* C9 as claimed: for every array descriptor t,
\* get_array_level(get_array_type(t)) + 1 = get_array_level(t).
C9_Original ==
  (AllRun /\ LeadingMarkers(arrT) >= 1) => arrElemLevel + 1 = arrLevel

\* C9 as amended: get_array_level(t) is the count of leading array markers
\* of t; for an array descriptor t, get_array_type(t) has all of them
\* stripped, so get_array_level(get_array_type(t)) = 0, and
\* get_array_level(get_array_type(t)) + 1 = get_array_level(t) exactly when
\* t has one leading array marker; for other descriptors get_array_type
\* returns null.
C9_ArrayDepth ==
  /\ "get_array_level" \in ran => arrLevel = LeadingMarkers(arrT)
  /\ "get_array_type" \in ran =>
       IF LeadingMarkers(arrT) = 0 THEN arrElem = NoType
       ELSE /\ arrElem \in ElementDescriptors
            /\ Markers(LeadingMarkers(arrT)) \o arrElem = arrT
  /\ (AllRun /\ LeadingMarkers(arrT) >= 1) =>
       /\ arrElemLevel = 0
       /\ (arrElemLevel + 1 = arrLevel <=> LeadingMarkers(arrT) = 1)

\* an array of arrays: depth 2, element type of depth 0
C9_Witness ==
  /\ AllRun
  /\ arrLevel = 2
  /\ arrElemLevel = 0

====
